---- MODULE Spec2Model ----
(***************************************************************************)
(* Model of ESP32_Firmware.ino: the KY-024 edge interrupt handler, the     *)
(* three volatile tracker words it writes, and loop(), which snapshots     *)
(* them inside a noInterrupts()/interrupts() section, derives rpm and      *)
(* speed, and notifies a BLE packet every 100 ms.                          *)
(*                                                                         *)
(* uint32_t values are kept at their full width.  TLC integers are 32-bit  *)
(* signed, so a uint32_t is the pair <<high half, low half>> of its two    *)
(* 16-bit halves and the arithmetic below is carried out on the halves.    *)
(***************************************************************************)
EXTENDS Integers, Naturals, Sequences, FiniteSets, TLC

(* ------------------------------------------------------------------ *)
(* Bounds of the exploration                                           *)
(* ------------------------------------------------------------------ *)
\* number of clock advances explored
MaxTicks == 3
\* number of runs of the edge handler explored
MaxEdges == 3

(* ------------------------------------------------------------------ *)
(* Program constants                                                   *)
(* ------------------------------------------------------------------ *)
MAGNETS_PER_REV == 1
MIN_PULSE_GAP_US == 2000
NO_PULSE_TIMEOUT_MS == 600
SEND_PERIOD_MS == 100
DELAY_MS == 2
\* WHEEL_CIRCUMFERENCE_M = 0.210f, as the fraction 21 / 100
WHEEL_CIRCUMFERENCE_NUM == 21
WHEEL_CIRCUMFERENCE_DEN == 100
\* millis() when setup() returns: it starts with delay(300)
SETUP_DELAY_MS == 300

(* ------------------------------------------------------------------ *)
(* uint32_t arithmetic                                                 *)
(* ------------------------------------------------------------------ *)
Half == 2 ^ 16

\* the uint32_t holding n, for 0 <= n < 2^31
U32(n) == <<n \div Half, n % Half>>

Zero32 == <<0, 0>>

\* a + b, modulo 2^32
Add32(a, b) ==
    LET lo == a[2] + b[2]
        hi == a[1] + b[1] + (lo \div Half)
    IN  <<hi % Half, lo % Half>>

\* a difference that is 0 when the later reading is the smaller one
Sub32_Clamped(a, b) ==
    IF a[1] < b[1] \/ (a[1] = b[1] /\ a[2] < b[2]) THEN <<0, 0>>
    ELSE LET lo == a[2] - b[2]
             borrow == IF lo < 0 THEN 1 ELSE 0
         IN  <<a[1] - b[1] - borrow, lo % Half>>

\* a - b, modulo 2^32 (unsigned subtraction)
Sub32(a, b) ==
    LET lo == a[2] - b[2]
        borrow == IF lo < 0 THEN 1 ELSE 0
    IN  <<(a[1] - b[1] - borrow) % Half, lo % Half>>

Lt32(a, b) == a[1] < b[1] \/ (a[1] = b[1] /\ a[2] < b[2])
Le32(a, b) == a = b \/ Lt32(a, b)
Ge32(a, b) == ~Lt32(a, b)
Gt32(a, b) == Lt32(b, a)

\* a / 1000U, unsigned division: 65536 = 65 * 1000 + 536
Div1000(a) == U32(65 * a[1] + ((536 * a[1] + a[2]) \div 1000))

(* ------------------------------------------------------------------ *)
(* float / double values                                               *)
(*                                                                     *)
(* A value is either the record [n, d, iv, m], standing for the exact  *)
(* quotient n / (d * iv * m) with iv a nonzero uint32_t, or InfF, the  *)
(* result of a division by zero.  Rounding to float is not modelled.   *)
(* ------------------------------------------------------------------ *)
RECURSIVE Gcd(_, _)
Gcd(a, b) == IF b = 0 THEN a ELSE Gcd(b, a % b)

ZeroF == [n |-> 0, d |-> 1, iv |-> <<0, 1>>, m |-> 1]
InfF == [n |-> 1, d |-> 0, iv |-> <<0, 1>>, m |-> 1]

\* num / (double(iv) * double(m))
DivF(num, iv, m) ==
    IF iv = Zero32 \/ m = 0 THEN InfF
    ELSE [n |-> num, d |-> 1, iv |-> iv, m |-> m]

\* x * p / q
MulF(x, p, q) ==
    IF x = InfF THEN InfF
    ELSE IF x.n = 0 \/ p = 0 THEN ZeroF
    ELSE LET num == x.n * p
             den == x.d * q
             g == Gcd(num, den)
         IN  [x EXCEPT !.n = num \div g, !.d = den \div g]

\* the quotient taken with no test of its divisor
rpmFromInterval_Unguarded(intervalMicros, magnetsPerRev) ==
    MulF(DivF(1000000, intervalMicros, magnetsPerRev), 60, 1)

\* revolutions per second returned as if they were per minute
rpmFromInterval_RevPerSec(intervalMicros, magnetsPerRev) ==
    IF intervalMicros = Zero32 \/ magnetsPerRev = 0 THEN ZeroF
    ELSE DivF(1000000, intervalMicros, magnetsPerRev)

rpmFromInterval(intervalMicros, magnetsPerRev) ==
    IF intervalMicros = Zero32 \/ magnetsPerRev = 0 THEN ZeroF
    ELSE MulF(DivF(1000000, intervalMicros, magnetsPerRev), 60, 1)

speedMpsFromRPM(rpm_, circNum, circDen) ==
    MulF(MulF(rpm_, circNum, circDen), 1, 60)

\* speed_mps * 3.6f
KphFromMps(mps) == MulF(mps, 18, 5)

(* ------------------------------------------------------------------ *)
(* State                                                               *)
(* ------------------------------------------------------------------ *)
VARIABLES
    \* clock collaborator: micros(), millis(), microseconds into the millisecond
    us, ms, frac,
    \* tracker words written by the handler
    g_pulseCount, g_lastPulseMicros, g_lastIntervalMicros,
    \* interrupt controller: masked by noInterrupts(); an edge latched
    intsDisabled, pending,
    \* loop(): position, its static and its locals
    pc, lastSendMs, nowMs, hallRaw,
    lastPulseMicrosSnapshot, lastIntervalMicrosSnapshot, pulseCountSnapshot,
    nowUs, sinceLastPulseMs, rpm, speed_mps, delayStart,
    \* the packet global, the characteristic's value, the notifications made,
    \* and what became of the notification of the current iteration
    tx, charValue, notifyCount, notifyResult,
    \* history: clock advances made; handler runs; accepted edges; outcome of
    \* the latest run and of the run before it; micros() of these two runs;
    \* g_pulseCount before the earlier of them; micros() of the accepted edge
    \* before the latest one; real microseconds since the latest accepted edge,
    \* saturating
    nTicks, nEdges, nAccepted, lastOutcome, prevOutcome, lastNow, prevNow,
    prevCount, prevAccept, trueSince,
    \* the estimator and the duration arithmetic applied on their own to chosen
    \* inputs (idle while the program runs)
    est, wrap

clockVars == <<us, ms, frac>>
tracker == <<g_lastPulseMicros, g_lastIntervalMicros, g_pulseCount>>
irqVars == <<intsDisabled, pending>>
locals == <<nowMs, hallRaw, lastPulseMicrosSnapshot, lastIntervalMicrosSnapshot,
            pulseCountSnapshot, nowUs, sinceLastPulseMs, rpm, speed_mps, delayStart>>
bleVars == <<tx, charValue, notifyCount, notifyResult>>
edgeHist == <<nEdges, nAccepted, lastOutcome, prevOutcome, lastNow, prevNow,
              prevCount, prevAccept>>
progVars == <<clockVars, tracker, irqVars, pc, lastSendMs, locals, bleVars,
              nTicks, edgeHist, trueSince>>
auxVars == <<est, wrap>>
vars == <<progVars, auxVars>>

\* Telemetry tx{}
ZeroPacket == [speed_mps |-> ZeroF, speed_kph |-> ZeroF, rpm |-> ZeroF,
               hall_raw |-> 0, millis_ts |-> Zero32]

\* readings of the 12-bit ADC explored
HallValues == {0, 4095}

\* saturation point of trueSince: one millisecond past the timeout
SinceCap == (NO_PULSE_TIMEOUT_MS + 1) * 1000

\* clock advances explored, in microseconds: a bounce, the loop's delay, just
\* past the timeout (and so past a send period), and almost half of the
\* counter's range
BigJump == 2 * (2 ^ 30 - 500)
Deltas == {100, DELAY_MS * 1000, 600500, BigJump}

\* positions of loop() at which the clock advances are explored: before the
\* critical section, before the read of micros(), and inside delay(2)
TickPoints == {"noInterrupts", "micros", "delay"}

Min(a, b) == IF a < b THEN a ELSE b

ProgramInit ==
    /\ us = U32(SETUP_DELAY_MS * 1000)
    /\ ms = U32(SETUP_DELAY_MS)
    /\ frac = 0
    /\ g_pulseCount = Zero32
    /\ g_lastPulseMicros = Zero32
    /\ g_lastIntervalMicros = Zero32
    /\ intsDisabled = FALSE
    /\ pending = FALSE
    /\ pc = "millis"
    /\ lastSendMs = Zero32
    /\ nowMs = Zero32
    /\ hallRaw = 0
    /\ lastPulseMicrosSnapshot = Zero32
    /\ lastIntervalMicrosSnapshot = Zero32
    /\ pulseCountSnapshot = Zero32
    /\ nowUs = Zero32
    /\ sinceLastPulseMs = Zero32
    /\ rpm = ZeroF
    /\ speed_mps = ZeroF
    /\ delayStart = Zero32
    /\ tx = ZeroPacket
    /\ charValue = ZeroPacket
    /\ notifyCount = 0
    /\ notifyResult = "none"
    /\ nTicks = 0
    /\ nEdges = 0
    /\ nAccepted = 0
    /\ lastOutcome = "none"
    /\ prevOutcome = "none"
    /\ lastNow = Zero32
    /\ prevNow = Zero32
    /\ prevCount = Zero32
    /\ prevAccept = Zero32
    /\ trueSince = 0

\* est and wrap while they are not in use
EstIdle == [pc |-> "idle"]
WrapIdle == [pc |-> "idle"]

Init == ProgramInit /\ est = EstIdle /\ wrap = WrapIdle

\* the handler is entered as soon as an edge is latched and interrupts are on
IsrDue == pending /\ ~intsDisabled

(* ------------------------------------------------------------------ *)
(* Environment                                                         *)
(* ------------------------------------------------------------------ *)
\* d microseconds pass
Tick(d) ==
    /\ ~IsrDue
    /\ pc \in TickPoints
    /\ nTicks < MaxTicks
    /\ nTicks' = nTicks + 1
    /\ us' = Add32(us, U32(d))
    /\ ms' = Add32(ms, U32((frac + d) \div 1000))
    /\ frac' = (frac + d) % 1000
    /\ trueSince' = Min(trueSince + Min(d, SinceCap), SinceCap)
    /\ UNCHANGED <<auxVars, tracker, irqVars, pc, lastSendMs, locals, bleVars, edgeHist>>

\* a transition of the KY-024 digital output (attachInterrupt ... CHANGE)
Edge ==
    /\ ~pending
    /\ nEdges < MaxEdges
    /\ pending' = TRUE
    /\ UNCHANGED <<auxVars, clockVars, tracker, intsDisabled, pc, lastSendMs, locals,
                   bleVars, nTicks, edgeHist, trueSince>>

(* ------------------------------------------------------------------ *)
(* The edge handler                                                    *)
(* ------------------------------------------------------------------ *)
\* the accepting branch with the interval taken after the timestamp is stored
IsrAccept_IntervalAfterStamp(now, gap) ==
    /\ g_lastPulseMicros' = now
    /\ g_lastIntervalMicros' = Sub32(now, g_lastPulseMicros')
    /\ g_pulseCount' = Add32(g_pulseCount, U32(1))

\* the handler body on an edge it accepts
IsrAccept(now, gap) ==
    /\ g_lastIntervalMicros' = gap
    /\ g_lastPulseMicros' = now
    /\ g_pulseCount' = Add32(g_pulseCount, U32(1))

\* a rejecting branch that restarts the debounce window at the bounce
IsrReject_Restart(now, gap) ==
    /\ g_lastPulseMicros' = now
    /\ UNCHANGED <<g_lastIntervalMicros, g_pulseCount>>

\* the handler body on an edge it rejects
IsrReject(now, gap) ==
    UNCHANGED tracker

\* the handler without its test
Debounced_Off(gap) == TRUE

\* if (gap >= MIN_PULSE_GAP_US)
Debounced(gap) == Ge32(gap, U32(MIN_PULSE_GAP_US))

isr_ky024 ==
    /\ IsrDue
    /\ pending' = FALSE
    /\ LET now == us
           gap == Sub32(now, g_lastPulseMicros)
           accepted == Debounced(gap)
       IN  /\ IF accepted THEN IsrAccept(now, gap) ELSE IsrReject(now, gap)
           /\ nEdges' = nEdges + 1
           /\ nAccepted' = IF accepted THEN nAccepted + 1 ELSE nAccepted
           /\ lastOutcome' = IF accepted THEN "accepted" ELSE "rejected"
           /\ prevOutcome' = lastOutcome
           /\ lastNow' = now
           /\ prevNow' = lastNow
           /\ prevCount' = IF nEdges = 0 THEN Zero32
                           ELSE IF lastOutcome = "accepted"
                                THEN Sub32(g_pulseCount, U32(1))
                                ELSE g_pulseCount
           /\ prevAccept' = IF accepted THEN g_lastPulseMicros ELSE prevAccept
           /\ trueSince' = IF accepted THEN 0 ELSE trueSince
    /\ UNCHANGED <<auxVars, clockVars, intsDisabled, pc, lastSendMs, locals, bleVars, nTicks>>

(* ------------------------------------------------------------------ *)
(* loop()                                                              *)
(* ------------------------------------------------------------------ *)
\* const uint32_t nowMs = millis();
L_Millis ==
    /\ pc = "millis" /\ ~IsrDue
    /\ nowMs' = ms
    /\ pc' = "analog"
    /\ UNCHANGED <<auxVars, clockVars, tracker, irqVars, lastSendMs, hallRaw,
                   lastPulseMicrosSnapshot, lastIntervalMicrosSnapshot,
                   pulseCountSnapshot, nowUs, sinceLastPulseMs, rpm, speed_mps,
                   delayStart, bleVars, nTicks, edgeHist, trueSince>>

\* uint16_t hallRaw = analogRead(PIN_KY024_AO);
L_Analog ==
    /\ pc = "analog" /\ ~IsrDue
    /\ \E v \in HallValues : hallRaw' = v
    /\ pc' = "noInterrupts"
    /\ UNCHANGED <<auxVars, clockVars, tracker, irqVars, lastSendMs, nowMs,
                   lastPulseMicrosSnapshot, lastIntervalMicrosSnapshot,
                   pulseCountSnapshot, nowUs, sinceLastPulseMs, rpm, speed_mps,
                   delayStart, bleVars, nTicks, edgeHist, trueSince>>

\* noInterrupts() without its effect
L_NoInterrupts_Unmasked ==
    /\ pc = "noInterrupts" /\ ~IsrDue
    /\ pc' = "snapPulse"
    /\ UNCHANGED <<auxVars, clockVars, tracker, irqVars, lastSendMs, locals, bleVars,
                   nTicks, edgeHist, trueSince>>

\* noInterrupts();
L_NoInterrupts ==
    /\ pc = "noInterrupts" /\ ~IsrDue
    /\ intsDisabled' = TRUE
    /\ pc' = "snapPulse"
    /\ UNCHANGED <<auxVars, clockVars, tracker, pending, lastSendMs, locals, bleVars,
                   nTicks, edgeHist, trueSince>>

\* lastPulseMicrosSnapshot = g_lastPulseMicros;
L_SnapPulse ==
    /\ pc = "snapPulse" /\ ~IsrDue
    /\ lastPulseMicrosSnapshot' = g_lastPulseMicros
    /\ pc' = "snapInterval"
    /\ UNCHANGED <<auxVars, clockVars, tracker, irqVars, lastSendMs, nowMs, hallRaw,
                   lastIntervalMicrosSnapshot, pulseCountSnapshot, nowUs,
                   sinceLastPulseMs, rpm, speed_mps, delayStart, bleVars,
                   nTicks, edgeHist, trueSince>>

\* lastIntervalMicrosSnapshot = g_lastIntervalMicros;
L_SnapInterval ==
    /\ pc = "snapInterval" /\ ~IsrDue
    /\ lastIntervalMicrosSnapshot' = g_lastIntervalMicros
    /\ pc' = "snapCount"
    /\ UNCHANGED <<auxVars, clockVars, tracker, irqVars, lastSendMs, nowMs, hallRaw,
                   lastPulseMicrosSnapshot, pulseCountSnapshot, nowUs,
                   sinceLastPulseMs, rpm, speed_mps, delayStart, bleVars,
                   nTicks, edgeHist, trueSince>>

\* a read of the pulse count that also clears it
L_SnapCount_ReadAndClear ==
    /\ pc = "snapCount" /\ ~IsrDue
    /\ pulseCountSnapshot' = g_pulseCount
    /\ g_pulseCount' = Zero32
    /\ pc' = "interrupts"
    /\ UNCHANGED <<auxVars, clockVars, g_lastPulseMicros, g_lastIntervalMicros,
                   irqVars, lastSendMs, nowMs, hallRaw,
                   lastPulseMicrosSnapshot, lastIntervalMicrosSnapshot, nowUs,
                   sinceLastPulseMs, rpm, speed_mps, delayStart, bleVars,
                   nTicks, edgeHist, trueSince>>

\* pulseCountSnapshot = g_pulseCount;
L_SnapCount ==
    /\ pc = "snapCount" /\ ~IsrDue
    /\ pulseCountSnapshot' = g_pulseCount
    /\ pc' = "interrupts"
    /\ UNCHANGED <<auxVars, clockVars, tracker, irqVars, lastSendMs, nowMs, hallRaw,
                   lastPulseMicrosSnapshot, lastIntervalMicrosSnapshot, nowUs,
                   sinceLastPulseMs, rpm, speed_mps, delayStart, bleVars,
                   nTicks, edgeHist, trueSince>>

\* a loop that goes on without re-enabling interrupts
L_Interrupts_Missing ==
    /\ pc = "interrupts"
    /\ pc' = "micros"
    /\ UNCHANGED <<auxVars, clockVars, tracker, irqVars, lastSendMs, locals, bleVars,
                   nTicks, edgeHist, trueSince>>

\* interrupts();
L_Interrupts ==
    /\ pc = "interrupts"
    /\ intsDisabled' = FALSE
    /\ pc' = "micros"
    /\ UNCHANGED <<auxVars, clockVars, tracker, pending, lastSendMs, locals, bleVars,
                   nTicks, edgeHist, trueSince>>

\* the condition without its timeout
IsFresh_NoTimeout(sinceMs, interval) == Gt32(interval, Zero32)

\* the condition of the if: pulses are recent and an interval is stored
IsFresh(sinceMs, interval) ==
    Le32(sinceMs, U32(NO_PULSE_TIMEOUT_MS)) /\ Gt32(interval, Zero32)

\* the division made whenever pulses are recent, with no test of the interval
ComputeRpm_Unguarded(sinceMs, interval) ==
    IF Le32(sinceMs, U32(NO_PULSE_TIMEOUT_MS))
    THEN MulF(DivF(1000000, interval, MAGNETS_PER_REV), 60, 1)
    ELSE ZeroF

\* the rpm the if/else leaves in rpm
ComputeRpm(sinceMs, interval) ==
    IF IsFresh(sinceMs, interval)
    THEN rpmFromInterval(interval, MAGNETS_PER_REV)
    ELSE ZeroF

\* the speed the if/else leaves in speed_mps
ComputeSpeed(sinceMs, interval) ==
    IF IsFresh(sinceMs, interval)
    THEN speedMpsFromRPM(rpmFromInterval(interval, MAGNETS_PER_REV),
                         WHEEL_CIRCUMFERENCE_NUM, WHEEL_CIRCUMFERENCE_DEN)
    ELSE ZeroF

\* nowUs = micros(); sinceLastPulseMs = ...; the if/else setting rpm, speed_mps
L_Estimate ==
    /\ pc = "micros" /\ ~IsrDue
    /\ nowUs' = us
    /\ sinceLastPulseMs' = Div1000(Sub32(us, lastPulseMicrosSnapshot))
    /\ rpm' = ComputeRpm(sinceLastPulseMs', lastIntervalMicrosSnapshot)
    /\ speed_mps' = ComputeSpeed(sinceLastPulseMs', lastIntervalMicrosSnapshot)
    /\ pc' = "send"
    /\ UNCHANGED <<auxVars, clockVars, tracker, irqVars, lastSendMs, nowMs, hallRaw,
                   lastPulseMicrosSnapshot, lastIntervalMicrosSnapshot,
                   pulseCountSnapshot, delayStart, bleVars, nTicks, edgeHist,
                   trueSince>>

\* a send on every iteration
SendDue_Always(now, last) == TRUE

\* if (nowMs - lastSendMs >= 100)
SendDue(now, last) == Ge32(Sub32(now, last), U32(SEND_PERIOD_MS))

\* what can become of pCharacteristic->notify(); it returns nothing
NotifyOutcomes == {"delivered", "nosubscriber", "failed"}

\* a send stamped only once it is delivered, so that a lost one is retried
StampSend_WhenDelivered(outcome, now, last) ==
    IF outcome = "delivered" THEN now ELSE last

\* lastSendMs = nowMs; it precedes notify() and does not see its outcome
StampSend(outcome, now, last) == now

\* a packet whose rpm field is left as the previous packet had it
AssembleTx_KeepRpm(old, mps, r, hall, now) ==
    [speed_mps |-> mps, speed_kph |-> KphFromMps(mps), rpm |-> old.rpm,
     hall_raw |-> hall, millis_ts |-> now]

\* a packet stamped with millis() at the time of sending
AssembleTx_StampAtSend(old, mps, r, hall, now) ==
    [speed_mps |-> mps, speed_kph |-> KphFromMps(mps), rpm |-> r,
     hall_raw |-> hall, millis_ts |-> ms]

\* the five assignments to the fields of tx
AssembleTx(old, mps, r, hall, now) ==
    [speed_mps |-> mps, speed_kph |-> KphFromMps(mps), rpm |-> r,
     hall_raw |-> hall, millis_ts |-> now]

\* the if block that fills tx, sets the characteristic and notifies; then the
\* loop enters delay(2)
L_Send ==
    /\ pc = "send" /\ ~IsrDue
    /\ IF SendDue(nowMs, lastSendMs)
       THEN \E outcome \in NotifyOutcomes :
            /\ lastSendMs' = StampSend(outcome, nowMs, lastSendMs)
            /\ tx' = AssembleTx(tx, speed_mps, rpm, hallRaw, nowMs)
            /\ charValue' = tx'
            /\ notifyCount' = notifyCount + 1
            /\ notifyResult' = outcome
       ELSE UNCHANGED <<lastSendMs, bleVars>>
    /\ delayStart' = us
    /\ pc' = "delay"
    /\ UNCHANGED <<auxVars, clockVars, tracker, irqVars, nowMs, hallRaw,
                   lastPulseMicrosSnapshot, lastIntervalMicrosSnapshot,
                   pulseCountSnapshot, nowUs, sinceLastPulseMs, rpm, speed_mps,
                   nTicks, edgeHist, trueSince>>

\* delay(2) returns and loop() is called again; its locals are dead, and so
\* is the outcome of its notification
L_Delay ==
    /\ pc = "delay" /\ ~IsrDue
    /\ Ge32(Sub32(us, delayStart), U32(DELAY_MS * 1000))
    /\ pc' = "millis"
    /\ nowMs' = Zero32
    /\ hallRaw' = 0
    /\ lastPulseMicrosSnapshot' = Zero32
    /\ lastIntervalMicrosSnapshot' = Zero32
    /\ pulseCountSnapshot' = Zero32
    /\ nowUs' = Zero32
    /\ sinceLastPulseMs' = Zero32
    /\ rpm' = ZeroF
    /\ speed_mps' = ZeroF
    /\ delayStart' = Zero32
    /\ notifyResult' = "none"
    /\ UNCHANGED <<auxVars, clockVars, tracker, irqVars, lastSendMs, tx, charValue,
                   notifyCount, nTicks, edgeHist, trueSince>>

(* ------------------------------------------------------------------ *)
(* The estimator on its own: rpmFromInterval, speedMpsFromRPM and the  *)
(* km/h conversion applied to chosen arguments                         *)
(* ------------------------------------------------------------------ *)
\* uint32_t intervals, uint8_t magnet counts and circumferences (as
\* numerator and denominator) the estimator is applied to
EstIntervals == {Zero32, U32(1), U32(MIN_PULSE_GAP_US), U32(500000),
                 <<Half - 1, Half - 1>>}
EstMagnets == {0, 1, 2, 255}
EstCircs == {<<0, 1>>, <<WHEEL_CIRCUMFERENCE_NUM, WHEEL_CIRCUMFERENCE_DEN>>, <<1, 1>>}

EstInit ==
    /\ ProgramInit
    /\ wrap = WrapIdle
    /\ \E i \in EstIntervals, n \in EstMagnets, c \in EstCircs :
          est = [pc |-> "args", interval |-> i, magnets |-> n,
                 cnum |-> c[1], cden |-> c[2],
                 rpm |-> ZeroF, mps |-> ZeroF, kph |-> ZeroF]

\* rpm = rpmFromInterval(interval, magnets)
E_Rpm ==
    /\ est.pc = "args"
    /\ est' = [est EXCEPT !.pc = "rpm",
                          !.rpm = rpmFromInterval(est.interval, est.magnets)]
    /\ UNCHANGED <<progVars, wrap>>

\* speed_mps = speedMpsFromRPM(rpm, circumference)
E_Speed ==
    /\ est.pc = "rpm"
    /\ est' = [est EXCEPT !.pc = "mps",
                          !.mps = speedMpsFromRPM(est.rpm, est.cnum, est.cden)]
    /\ UNCHANGED <<progVars, wrap>>

\* speed_kph = speed_mps * 3.6f
E_Kph ==
    /\ est.pc = "mps"
    /\ est' = [est EXCEPT !.pc = "done", !.kph = KphFromMps(est.mps)]
    /\ UNCHANGED <<progVars, wrap>>

EstNext == E_Rpm \/ E_Speed \/ E_Kph

EstSpec == EstInit /\ [][EstNext]_vars

(* ------------------------------------------------------------------ *)
(* The three durations on their own: two readings of a 32-bit counter, *)
(* the second taken a chosen distance after the first                  *)
(* ------------------------------------------------------------------ *)
\* first readings: small, at the middle of the range, and just below the wrap
WrapReadings == {Zero32, U32(SETUP_DELAY_MS * 1000), <<Half \div 2, 0>>,
                 <<Half - 1, Half - 100>>, <<Half - 1, Half - 1>>}
\* real distances between the readings, all below 2^32
WrapDistances == {Zero32, U32(SEND_PERIOD_MS - 1), U32(SEND_PERIOD_MS),
                  U32(MIN_PULSE_GAP_US - 1), U32(MIN_PULSE_GAP_US),
                  U32(NO_PULSE_TIMEOUT_MS * 1000 + 999),
                  U32((NO_PULSE_TIMEOUT_MS + 1) * 1000),
                  <<Half - 1, Half - 1>>}

WrapInit ==
    /\ ProgramInit
    /\ est = EstIdle
    /\ \E f \in WrapReadings, x \in WrapDistances :
          wrap = [pc |-> "args", first |-> f, dist |-> x, second |-> f,
                  gap |-> Zero32, accepted |-> FALSE, sinceMs |-> Zero32,
                  due |-> FALSE]

\* the counter is read again, dist later
W_Read ==
    /\ wrap.pc = "args"
    /\ wrap' = [wrap EXCEPT !.pc = "read", !.second = Add32(wrap.first, wrap.dist)]
    /\ UNCHANGED <<progVars, est>>

\* gap = now - g_lastPulseMicros; if (gap >= MIN_PULSE_GAP_US)
W_Gap ==
    /\ wrap.pc = "read"
    /\ wrap' = [wrap EXCEPT !.pc = "gap",
                            !.gap = Sub32(wrap.second, wrap.first),
                            !.accepted = Debounced(Sub32(wrap.second, wrap.first))]
    /\ UNCHANGED <<progVars, est>>

\* sinceLastPulseMs = (nowUs - lastPulseMicrosSnapshot) / 1000U
W_Elapsed ==
    /\ wrap.pc = "gap"
    /\ wrap' = [wrap EXCEPT !.pc = "elapsed",
                            !.sinceMs = Div1000(Sub32(wrap.second, wrap.first))]
    /\ UNCHANGED <<progVars, est>>

\* if (nowMs - lastSendMs >= 100)
W_Cadence ==
    /\ wrap.pc = "elapsed"
    /\ wrap' = [wrap EXCEPT !.pc = "done",
                            !.due = SendDue(wrap.second, wrap.first)]
    /\ UNCHANGED <<progVars, est>>

WrapNext == W_Read \/ W_Gap \/ W_Elapsed \/ W_Cadence

WrapSpec == WrapInit /\ [][WrapNext]_vars

Advance == \E d \in Deltas : Tick(d)

Next ==
    \/ Advance
    \/ Edge
    \/ isr_ky024
    \/ L_Millis
    \/ L_Analog
    \/ L_NoInterrupts
    \/ L_SnapPulse
    \/ L_SnapInterval
    \/ L_SnapCount
    \/ L_Interrupts
    \/ L_Estimate
    \/ L_Send
    \/ L_Delay

Spec == Init /\ [][Next]_vars

(* ------------------------------------------------------------------ *)
(* Properties                                                          *)
(* ------------------------------------------------------------------ *)
snapshot == <<lastPulseMicrosSnapshot, lastIntervalMicrosSnapshot, pulseCountSnapshot>>

\* the step of loop() that computes a sample
Estimating == pc = "micros" /\ pc' = "send"

\* the step that runs the edge handler
HandlerRuns == IsrDue /\ ~pending'

\* the gap the handler computes in the current state
GapNow == Sub32(us, g_lastPulseMicros)

\* the gap between the latest two handler runs
PairGap == Sub32(lastNow, prevNow)

\* C1: once more than the staleness timeout of real time has passed since the
\* latest accepted edge, every sample computed before another edge is
\* accepted has rpm = 0 and speed_mps = 0, also after micros() has wrapped.
C1_StaleStaysZero ==
    [][(Estimating /\ nAccepted >= 1 /\ trueSince >= SinceCap)
          => (rpm' = ZeroF /\ speed_mps' = ZeroF)]_vars

\* C2 as stated: a sample computed more than 600000 us (modulo 2^32) after the
\* snapshot's last_accept_time has rpm = 0 and speed_mps = 0.
C2_StaleAbove600000us ==
    (pc \in {"send", "delay"}
       /\ Gt32(Sub32(nowUs, lastPulseMicrosSnapshot), U32(NO_PULSE_TIMEOUT_MS * 1000)))
    => (rpm = ZeroF /\ speed_mps = ZeroF)

\* C2 amended: a sample whose elapsed time in whole milliseconds, the 32-bit
\* difference divided by 1000 and truncated, is greater than 600 has rpm = 0
\* and speed_mps = 0 whatever interval the snapshot holds.
C2_StaleAbove600ms ==
    (pc \in {"send", "delay"}
       /\ Gt32(Div1000(Sub32(nowUs, lastPulseMicrosSnapshot)), U32(NO_PULSE_TIMEOUT_MS)))
    => (rpm = ZeroF /\ speed_mps = ZeroF)

\* a stale sample was computed from a snapshot holding a nonzero interval
C2_Witness ==
    /\ pc = "send"
    /\ Gt32(sinceLastPulseMs, U32(NO_PULSE_TIMEOUT_MS))
    /\ sinceLastPulseMs = Div1000(Sub32(nowUs, lastPulseMicrosSnapshot))
    /\ lastIntervalMicrosSnapshot # Zero32
    /\ rpm = ZeroF

\* C3: after exactly one accepted edge last_interval_duration is still 0 and
\* no sample has a nonzero rpm or speed.
C3_FirstGapDiscarded ==
    nAccepted = 1 =>
        (g_lastIntervalMicros = Zero32 /\ rpm = ZeroF /\ speed_mps = ZeroF)

\* C4: what the snapshot has read so far is what the tracker holds now, so the
\* completed triple is the tracker's state at one instant between two
\* handler runs.
C4_SnapshotNotTorn ==
    /\ pc \in {"snapInterval", "snapCount", "interrupts"}
          => lastPulseMicrosSnapshot = g_lastPulseMicros
    /\ pc \in {"snapCount", "interrupts"}
          => lastIntervalMicrosSnapshot = g_lastIntervalMicros
    /\ pc = "interrupts" => snapshot = tracker

\* the snapshot of an accepted edge is complete while a new edge is held back
C4_Witness ==
    /\ pc = "interrupts"
    /\ pending
    /\ nAccepted >= 1
    /\ snapshot = tracker

\* C5: a handler run whose gap is below the debounce floor changes none of
\* last_accept_time, last_interval_duration, accepted_count.
C5_RejectChangesNothing ==
    [][(HandlerRuns /\ Lt32(GapNow, U32(MIN_PULSE_GAP_US)))
          => UNCHANGED tracker]_vars

\* an edge was rejected after one had been accepted
C5_Witness ==
    /\ lastOutcome = "rejected"
    /\ nAccepted >= 1
    /\ Lt32(Sub32(lastNow, g_lastPulseMicros), U32(MIN_PULSE_GAP_US))

\* C6: a handler run whose gap is at least the debounce floor stores the gap
\* as the interval, the current time as last_accept_time, and adds 1 to
\* accepted_count.
C6_AcceptUpdatesTogether ==
    [][(HandlerRuns /\ Ge32(GapNow, U32(MIN_PULSE_GAP_US)))
          => /\ g_lastIntervalMicros' = GapNow
             /\ g_lastPulseMicros' = us
             /\ g_pulseCount' = Add32(g_pulseCount, U32(1))]_vars

\* a second edge was accepted
C6_Witness ==
    /\ lastOutcome = "accepted"
    /\ nAccepted >= 2
    /\ g_lastPulseMicros = lastNow
    /\ g_lastIntervalMicros = Sub32(lastNow, prevAccept)

\* C7 as stated: over two consecutive handler runs less than the debounce
\* floor apart accepted_count increases by exactly 1.
C7_PairCountsExactlyOnce ==
    (nEdges >= 2 /\ Lt32(PairGap, U32(MIN_PULSE_GAP_US)))
    => g_pulseCount = Add32(prevCount, U32(1))

\* C7 amended: over such a pair accepted_count increases by at most 1, and by
\* exactly 1 when the first edge of the pair is accepted.
C7_PairCountsAtMostOnce ==
    (nEdges >= 2 /\ Lt32(PairGap, U32(MIN_PULSE_GAP_US)))
    => /\ g_pulseCount \in {prevCount, Add32(prevCount, U32(1))}
       /\ prevOutcome = "accepted"
             => (lastOutcome = "rejected" /\ g_pulseCount = Add32(prevCount, U32(1)))

\* the first two edges after startup came less than the floor apart
C7_Witness ==
    /\ nEdges = 2
    /\ Lt32(PairGap, U32(MIN_PULSE_GAP_US))
    /\ prevOutcome = "accepted"
    /\ g_pulseCount = U32(1)

\* C8: last_interval_duration is the time of the latest accepted edge minus
\* the time of the accepted edge before it; with fewer than two accepted
\* edges there is no such duration and it is 0.
C8_IntervalOfLastTwoAccepted ==
    IF nAccepted >= 2
    THEN g_lastIntervalMicros = Sub32(g_lastPulseMicros, prevAccept)
    ELSE g_lastIntervalMicros = Zero32

\* C9: while no edge has been accepted every sample computed and every packet
\* sent has rpm = 0 and speed 0, and no division by zero has been made.
C9_NoEdgeMeansZero ==
    nAccepted = 0 =>
        /\ rpm = ZeroF /\ speed_mps = ZeroF
        /\ tx.rpm = ZeroF /\ tx.speed_mps = ZeroF /\ tx.speed_kph = ZeroF
        /\ charValue = tx

\* with no edge accepted, a sample computed inside the staleness window
\* (elapsed time measured from the initial 0) was sent
C9_Witness ==
    /\ nAccepted = 0
    /\ pc = "delay"
    /\ notifyCount = 1
    /\ Le32(sinceLastPulseMs, U32(NO_PULSE_TIMEOUT_MS))
    /\ charValue.millis_ts = nowMs

\* C10: an iteration notifies exactly once if nowMs is at least 100 ms past
\* the previous packet's timestamp and not at all otherwise; nothing else
\* notifies; consecutive packets are stamped at least 100 ms apart.
C10_OneBroadcastPerPeriod ==
    [][/\ (pc = "send" /\ pc' = "delay")
            => notifyCount' = notifyCount +
                 (IF Ge32(Sub32(nowMs, tx.millis_ts), U32(SEND_PERIOD_MS)) THEN 1 ELSE 0)
       /\ notifyCount' # notifyCount
            => /\ pc = "send"
               /\ notifyCount' = notifyCount + 1
               /\ charValue' = tx'
               /\ tx'.millis_ts = nowMs
               /\ Ge32(Sub32(tx'.millis_ts, tx.millis_ts), U32(SEND_PERIOD_MS))]_vars

\* two packets were sent and a later iteration, inside the period, sent none
C10_Witness ==
    /\ pc = "delay"
    /\ notifyCount >= 2
    /\ nowMs # lastSendMs
    /\ Lt32(Sub32(nowMs, lastSendMs), U32(SEND_PERIOD_MS))

\* the step of loop() that decides on a send
Sending == pc = "send" /\ pc' = "delay"

\* C11: whatever becomes of a notification, the step that makes it leaves the
\* tracker and the sample's inputs alone and stamps lastSendMs as a delivered
\* one does, the packet is this iteration's and not a repeat, and the return
\* from delay(2) starts the next iteration from the same state.
C11_OutcomeChangesNothing ==
    [][/\ Sending
            => /\ UNCHANGED <<tracker, clockVars, irqVars, rpm, speed_mps, nowMs>>
               /\ lastSendMs' = IF SendDue(nowMs, lastSendMs) THEN nowMs ELSE lastSendMs
               /\ notifyCount' # notifyCount
                     => (tx'.millis_ts = nowMs /\ tx'.rpm = rpm /\ charValue' = tx')
       /\ (pc = "delay" /\ pc' = "millis")
            => /\ UNCHANGED <<tracker, clockVars, irqVars, lastSendMs, tx, charValue,
                              notifyCount>>
               /\ notifyResult' = "none"
               /\ rpm' = ZeroF /\ speed_mps' = ZeroF
               /\ lastPulseMicrosSnapshot' = Zero32]_vars

\* a second notification has failed and the send is stamped all the same
C11_Witness ==
    /\ pc = "delay"
    /\ notifyResult = "failed"
    /\ notifyCount >= 2
    /\ lastSendMs = nowMs
    /\ tx.millis_ts = nowMs

\* the value of the uint32_t u, for u < 2^31
Nat32(u) == u[1] * Half + u[2]

\* C12: for a zero interval or a zero pulses-per-revolution the estimator
\* returns rpm = 0, not the result of a division by zero, and the speed
\* derived from it is 0 for every circumference.
C12_DegenerateIsZero ==
    (est.pc \in {"rpm", "mps", "done"} /\ (est.interval = Zero32 \/ est.magnets = 0))
    => /\ est.rpm = ZeroF
       /\ est.pc \in {"mps", "done"} => est.mps = ZeroF
       /\ est.pc = "done" => est.kph = ZeroF

\* the estimator has run on a nonzero interval with zero pulses per revolution
\* and a nonzero circumference
C12_Witness ==
    /\ est.pc = "done"
    /\ est.interval # Zero32
    /\ est.magnets = 0
    /\ est.cnum # 0
    /\ est.rpm = ZeroF /\ est.mps = ZeroF

\* C13: for a nonzero interval and pulses-per-revolution rpm is
\* 60000000 / (interval * pulses) and speed_mps is rpm * circumference / 60;
\* for 500000 us, 1 pulse and 0.210 m they are 120 and 0.42, and speed_kph
\* is 1.512.
C13_EstimateFormula ==
    (est.pc \in {"rpm", "mps", "done"} /\ est.interval # Zero32 /\ est.magnets # 0)
    => /\ est.rpm = [n |-> 60000000, d |-> 1, iv |-> est.interval, m |-> est.magnets]
       /\ (est.pc \in {"mps", "done"} /\ est.cnum # 0)
            => /\ est.mps.iv = est.interval /\ est.mps.m = est.magnets
               /\ est.mps.n * (est.rpm.d * est.cden * 60)
                     = est.mps.d * (est.rpm.n * est.cnum)
       /\ (est.pc \in {"mps", "done"} /\ est.cnum = 0) => est.mps = ZeroF
       /\ (est.interval = U32(500000) /\ est.magnets = 1
             /\ est.cnum = 21 /\ est.cden = 100)
            => /\ est.rpm.n = 120 * est.rpm.d * Nat32(est.rpm.iv) * est.rpm.m
               /\ est.pc \in {"mps", "done"}
                     => est.mps.n * 100 = 42 * est.mps.d * Nat32(est.mps.iv) * est.mps.m
               /\ est.pc = "done"
                     => est.kph.n * 1000 = 1512 * est.kph.d * Nat32(est.kph.iv) * est.kph.m

\* the estimator has run on 500000 us, 1 pulse per revolution and 0.210 m
C13_Witness ==
    /\ est.pc = "done"
    /\ est.interval = U32(500000)
    /\ est.magnets = 1
    /\ est.cnum = 21 /\ est.cden = 100
    /\ est.kph.n # 0

\* at "delay": this iteration has sent the packet now in tx
SentThisIteration == pc = "delay" /\ notifyCount >= 1 /\ lastSendMs = nowMs

\* C14: in every packet sent speed_kph is speed_mps * 3.6 (18 / 5), and rpm
\* and speed_mps are both 0 or both derived from one and the same interval,
\* which is the interval snapshot of the iteration that sent the packet.
C14_PacketConsistent ==
    notifyCount >= 1 =>
        /\ charValue = tx
        /\ tx.speed_kph.iv = tx.speed_mps.iv /\ tx.speed_kph.m = tx.speed_mps.m
        /\ tx.speed_kph.n * 5 * tx.speed_mps.d = tx.speed_mps.n * 18 * tx.speed_kph.d
        /\ \/ tx.rpm = ZeroF /\ tx.speed_mps = ZeroF
           \/ /\ tx.rpm.n # 0
              /\ tx.rpm = rpmFromInterval(tx.rpm.iv, MAGNETS_PER_REV)
              /\ tx.speed_mps.iv = tx.rpm.iv
              /\ tx.speed_mps = speedMpsFromRPM(tx.rpm, WHEEL_CIRCUMFERENCE_NUM,
                                                WHEEL_CIRCUMFERENCE_DEN)
        /\ (SentThisIteration /\ tx.rpm # ZeroF)
              => tx.rpm.iv = lastIntervalMicrosSnapshot

\* a packet of zeros was sent and then one with a nonzero rpm and speed
C14_Witness ==
    /\ SentThisIteration
    /\ notifyCount >= 2
    /\ tx.rpm # ZeroF
    /\ tx.speed_mps # ZeroF
    /\ tx.speed_kph # ZeroF

\* C15: the tracker changes only in a handler run that accepts its edge, and
\* the read that completes a snapshot leaves the snapshot equal to the
\* tracker; so snapshots with no accepted edge between them are identical.
C15_OnlyHandlerWrites ==
    [][/\ tracker' # tracker
            => (HandlerRuns /\ Ge32(GapNow, U32(MIN_PULSE_GAP_US)))
       /\ (pc = "snapCount" /\ pc' = "interrupts")
            => (snapshot' = tracker' /\ tracker' = tracker)]_vars

\* a later iteration has taken the snapshot again of the one accepted edge
\* that an earlier iteration's packet was computed from
C15_Witness ==
    /\ pc = "interrupts"
    /\ nAccepted = 1
    /\ notifyCount >= 1
    /\ tx.rpm # ZeroF
    /\ snapshot = tracker
    /\ lastIntervalMicrosSnapshot = tx.rpm.iv

\* C16: for two readings of the 32-bit counter whose real distance is below
\* 2^32, wrapped in between or not, the debounce gap is that distance and the
\* edge is accepted exactly when it is at least the floor; the staleness time
\* is that distance in whole milliseconds; the send is due exactly when it is
\* at least 100.
C16_DurationsWrapSafe ==
    /\ wrap.pc \in {"gap", "elapsed", "done"}
          => /\ wrap.gap = wrap.dist
             /\ wrap.accepted <=> Ge32(wrap.dist, U32(MIN_PULSE_GAP_US))
    /\ wrap.pc \in {"elapsed", "done"}
          => wrap.sinceMs = Div1000(wrap.dist)
    /\ wrap.pc = "done"
          => (wrap.due <=> Ge32(wrap.dist, U32(SEND_PERIOD_MS)))

\* the counter wrapped between the readings, by the debounce floor exactly,
\* and the edge was accepted
C16_Witness ==
    /\ wrap.pc = "done"
    /\ Lt32(wrap.second, wrap.first)
    /\ wrap.dist = U32(MIN_PULSE_GAP_US)
    /\ wrap.accepted
    /\ wrap.due

\* the positions of loop() between noInterrupts() and interrupts()
CriticalSection == {"snapPulse", "snapInterval", "snapCount", "interrupts"}

\* C17: interrupts are disabled exactly from noInterrupts() to interrupts(),
\* around the three reads of the tracker; at every other position of the loop
\* a latched edge is served at once; the handler runs to completion without
\* moving the loop and leaves the interrupt mask as it found it.
C17_MaskedOnlyForSnapshot ==
    [][/\ intsDisabled <=> pc \in CriticalSection
       /\ intsDisabled' <=> pc' \in CriticalSection
       /\ (pending /\ pc \notin CriticalSection) => HandlerRuns
       /\ HandlerRuns => (pc' = pc /\ intsDisabled' = intsDisabled /\ locals' = locals)]_vars

\* an edge accepted after this iteration's snapshot and before its clock read
C17_Witness ==
    /\ pc = "micros"
    /\ ~intsDisabled
    /\ ~pending
    /\ nAccepted >= 1
    /\ Gt32(g_pulseCount, pulseCountSnapshot)

\* C18: an edge that arrives at least MIN_PULSE_GAP_US of real time after the
\* latest accepted edge is accepted, whatever was rejected in between.
C18_AcceptedAfterFloor ==
    [][(HandlerRuns /\ nAccepted >= 1 /\ trueSince >= MIN_PULSE_GAP_US)
          => (g_lastPulseMicros' = us /\ nAccepted' = nAccepted + 1)]_vars

\* C19: when the estimate is made from a snapshot of the latest accepted edge,
\* the elapsed time nowUs - lastPulseMicrosSnapshot is the real time since that
\* edge (here: equal to it below the saturation of trueSince, and not below
\* the saturation value once it is reached), and an edge no older than the
\* timeout with a stored interval does not give a zero sample.
C19_ElapsedIsTrueTime ==
    [][(/\ Estimating
        /\ nAccepted >= 1
        /\ lastPulseMicrosSnapshot = g_lastPulseMicros)
          => /\ trueSince < SinceCap
                   => Sub32(nowUs', lastPulseMicrosSnapshot) = U32(trueSince)
             /\ trueSince = SinceCap
                   => Ge32(Sub32(nowUs', lastPulseMicrosSnapshot), U32(SinceCap))
             /\ (trueSince <= NO_PULSE_TIMEOUT_MS * 1000
                    /\ Gt32(lastIntervalMicrosSnapshot, Zero32))
                   => rpm' # ZeroF]_vars

\* this iteration of loop() has sent a packet and is in its delay(2)
BroadcastMade == pc = "delay" /\ notifyResult # "none"

\* C20: a packet is made of what its own iteration read: the timestamp is the
\* millis() read at the top of the iteration, which no later clock reading of
\* the iteration precedes; the analog value is the one read in the iteration;
\* rpm and speed are the estimate from the iteration's snapshot and micros();
\* and the snapshot holds every edge accepted before it, being equal to the
\* tracker for as long as no edge is accepted after it.
C20_PacketFromOwnIteration ==
    /\ pc \in CriticalSection \cup {"micros", "send", "delay"} => Le32(nowMs, ms)
    /\ (pc \in {"interrupts", "micros", "send", "delay"}
           /\ pulseCountSnapshot = g_pulseCount)
          => snapshot = tracker
    /\ BroadcastMade
          => /\ tx.millis_ts = nowMs
             /\ tx.hall_raw = hallRaw
             /\ tx.rpm = ComputeRpm(Div1000(Sub32(nowUs, lastPulseMicrosSnapshot)),
                                    lastIntervalMicrosSnapshot)
             /\ tx.speed_mps = ComputeSpeed(Div1000(Sub32(nowUs, lastPulseMicrosSnapshot)),
                                            lastIntervalMicrosSnapshot)
             /\ charValue = tx
             /\ lastSendMs = nowMs

\* a second packet, with the edge accepted before its iteration's snapshot in
\* it, sent when the clock had moved on from the iteration's millis()
C20_Witness ==
    /\ BroadcastMade
    /\ notifyCount >= 2
    /\ nAccepted >= 1
    /\ snapshot = tracker
    /\ tx.rpm # ZeroF
    /\ tx.hall_raw # 0
    /\ Lt32(tx.millis_ts, ms)

====
